---- MODULE Spec2Model ----
(***************************************************************************)
(* The options backtester's engine (class Backtest of                      *)
(* backtester/backtester.py): the run loop over the periods of the data,   *)
(* the inventory (the ledger of open positions), the trade log, the        *)
(* capital, and the statistics of summary().                               *)
(*                                                                         *)
(* A DataFrame is a sequence of rows; a row is a record of the columns the *)
(* engine reads: leg_1's contract and order tag, and the totals block      *)
(* (cost, qty, date).  The ('totals', 'capital') column that summary()     *)
(* adds to the trade log is kept as a column of its own, capital_column.   *)
(* The Strategy and the data source are collaborators whose code is not    *)
(* part of backtester.py; their outputs are drawn from small sets.         *)
(***************************************************************************)
EXTENDS Integers, Sequences, FiniteSets, TLC

\* ------------------------------------------------------------- bounds
\* Periods one data source yields to one run.
MaxPeriods == 2
\* Calls of run() that pass the configuration check.
MaxRuns == 2
\* Entry candidates the strategy yields in one period.
MaxCands == 2
\* Rows of a trade log handed to summary() on its own (SpecSummary).
MaxLog == 3
\* Periods a run has been through, each of which may have opened a position,
\* when one more period is followed on its own (SpecLedger).
MaxOpen == 2

Contracts == {1, 2}
Costs == {-1, 1}
\* totals.qty of the rows the strategy yields in a run, and of the rows of a
\* trade log handed to summary() on its own.
Qtys == {2}
LogQtys == {1, 2}
\* strat.initial_capital of the strategies tried.
InitialCapitals == {2}
Schemas == {"options", "stocks"}

\* None: an unset attribute is the empty tuple, a set one a 1-tuple.
None == <<>>

\* ------------------------------------------------------------- rows
\* The order tags of a leg: buy/sell to open/close.  summary() reads the
\* third character of the tag.
BTO == <<"B", "T", "O">>
STO == <<"S", "T", "O">>
BTC == <<"B", "T", "C">>
STC == <<"S", "T", "C">>

Row(c, k, q, o, d) == [contract |-> c, cost |-> k, qty |-> q, order |-> o, date |-> d]

\* row['totals']['cost'] * row['totals']['qty']
TotalPrice(row) == row.cost * row.qty

RECURSIVE Sum(_)
Sum(s) == IF s = <<>> THEN 0 ELSE Head(s) + Sum(Tail(s))

SeqsUpTo(S, n) == UNION {[1..k -> S] : k \in 0..n}

\* The positions (1-based) a boolean mask selects, ascending.
Selected(mask) == SelectSeq([i \in 1..Len(mask) |-> i], LAMBDA i : mask[i])

\* ------------------------------------------------------------- strategy
\* An opening order is tagged by its direction: a debit buys to open, a
\* credit sells to open; a closing order likewise.
EntryOrder(k) == IF k >= 0 THEN BTO ELSE STO
ExitOrder(k) == IF k >= 0 THEN BTC ELSE STC

EntryRows(d) == {Row(c, k, q, EntryOrder(k), d) : c \in Contracts, k \in Costs, q \in Qtys}

\* filter_entries(options, inventory, date): zero or more candidate rows, each
\* a different row of the period's options.
FilterEntries(inv, d) ==
    {es \in SeqsUpTo(EntryRows(d), MaxCands) :
        \A i \in 1..Len(es) : \A j \in 1..Len(es) : es[i] = es[j] => i = j}

\* One exit signal: a closing row for each position the mask selects, at the
\* closing costs ks, and each row's total cost.
ExitSignal(inv, mask, ks, d) ==
    LET idx == Selected(mask)
    IN  [exits |-> [i \in 1..Len(idx) |->
                      Row(inv[idx[i]].contract, ks[i], inv[idx[i]].qty, ExitOrder(ks[i]), d)],
         exits_mask |-> mask,
         total_costs |-> [i \in 1..Len(idx) |-> ks[i] * inv[idx[i]].qty]]

\* filter_exits(options, inventory, date): (exits, mask over inventory, total costs).
FilterExits(inv, d) ==
    UNION {{ExitSignal(inv, mask, ks, d) : ks \in [1..Len(Selected(mask)) -> Costs]} :
             mask \in [1..Len(inv) -> BOOLEAN]}

NoSignals == [exits |-> <<>>, exits_mask |-> <<>>, total_costs |-> <<>>]
NoLedgers == [entries |-> <<>>, exits |-> <<>>]

\* ------------------------------------------------------------- state
VARIABLES
    strategy,          \* self._strategy: None or <<[initial_capital, schema]>>
    data,              \* self._data: None or <<[schema, periods]>>
    inventory,         \* self.inventory
    trade_log,         \* self.trade_log
    capital_column,    \* the ('totals', 'capital') column of self.trade_log; <<>> when absent
    current_capital,   \* self.current_capital (absent until a strategy is set: 0 here, never read)
    stop_if_broke,     \* self.stop_if_broke
    pc,                \* where the engine is: "idle", or in run(): "loop", "exit", "entry", "update"
    period,            \* the periods the running data_iterator has yielded; the date of the last
    runs,              \* calls of run() that have passed the configuration check
    entry_signals,     \* run()'s local entry_signals
    exit_signals,      \* run()'s local exit_signals
    capital_at_filter, \* history: current_capital when the period's signals were asked for
    ledger_at_filter,  \* history: the inventory each of the period's two queries was given
    outcome,           \* how the last call of run() stands: "", "running", "returned", "AssertionError"
    stats              \* what the last summary() of this run's trade log computed: <<>> or <<record>>

vars == <<strategy, data, inventory, trade_log, capital_column, current_capital, stop_if_broke,
          pc, period, runs, entry_signals, exit_signals, capital_at_filter, ledger_at_filter, outcome, stats>>

\* __init__ (lines 13-17)
Init ==
    /\ strategy = None
    /\ data = None
    /\ inventory = <<>>
    /\ trade_log = <<>>
    /\ capital_column = <<>>
    /\ current_capital = 0
    /\ stop_if_broke = TRUE
    /\ pc = "idle"
    /\ period = 0
    /\ runs = 0
    /\ entry_signals = <<>>
    /\ exit_signals = NoSignals
    /\ capital_at_filter = 0
    /\ ledger_at_filter = NoLedgers
    /\ outcome = ""
    /\ stats = <<>>

\* ------------------------------------------------------------- configuration
\* The strategy setter (lines 23-27).
SetStrategy(strat) ==
    /\ pc = "idle"
    /\ strategy' = <<strat>>
    /\ current_capital' = strat.initial_capital
    /\ UNCHANGED <<data, inventory, trade_log, capital_column, stop_if_broke, pc, period, runs,
                   entry_signals, exit_signals, capital_at_filter, ledger_at_filter, outcome, stats>>

\* The data setter (lines 33-36).
SetData(d) ==
    /\ pc = "idle"
    /\ data' = <<d>>
    /\ UNCHANGED <<strategy, inventory, trade_log, capital_column, current_capital, stop_if_broke,
                   pc, period, runs, entry_signals, exit_signals, capital_at_filter, ledger_at_filter, outcome, stats>>

\* An assignment to the public attribute stop_if_broke (line 17 sets the default).
SetStopIfBroke(b) ==
    /\ pc = "idle"
    /\ stop_if_broke' = b
    /\ UNCHANGED <<strategy, data, inventory, trade_log, capital_column, current_capital,
                   pc, period, runs, entry_signals, exit_signals, capital_at_filter, ledger_at_filter, outcome, stats>>

\* ------------------------------------------------------------- run
\* ConfigOK without the comparison of the two schemas.
ConfigOKWithoutSchemas(strat, dat) ==
    /\ dat # None
    /\ strat # None

\* The three asserts of run() (lines 48-50).
ConfigOK(strat, dat) ==
    /\ dat # None
    /\ strat # None
    /\ dat[1].schema = strat[1].schema

\* run(), lines 48-60: the asserts, then a fresh inventory and trade log.
Run ==
    /\ pc = "idle"
    /\ runs < MaxRuns
    /\ IF ConfigOK(strategy, data)
       THEN /\ inventory' = <<>>
            /\ trade_log' = <<>>
            /\ capital_column' = <<>>
            /\ pc' = "loop"
            /\ period' = 0
            /\ runs' = runs + 1
            /\ outcome' = "running"
            /\ stats' = <<>>
            /\ UNCHANGED <<strategy, data, current_capital, stop_if_broke, entry_signals,
                           exit_signals, capital_at_filter, ledger_at_filter>>
       ELSE /\ outcome' = "AssertionError"
            /\ UNCHANGED <<strategy, data, inventory, trade_log, capital_column, current_capital,
                           stop_if_broke, pc, period, runs, entry_signals, exit_signals,
                           capital_at_filter, ledger_at_filter, stats>>

\* The order of the loop body (lines 63-69): signals, exits, entries, the
\* progress bar, next period.
StepAfter(p) ==
    CASE p = "loop" -> "exit"
      [] p = "exit" -> "entry"
      [] p = "entry" -> "update"
      [] p = "update" -> "loop"

\* AppendRows with the new rows put in front.
PrependRows(frame, rows) == rows \o frame

\* self.trade_log.append(rows, ignore_index=True)
AppendRows(frame, rows) == frame \o rows

\* DropMasked with the mask inverted: the masked rows are the ones kept.
DropUnmasked(inv, mask) ==
    LET keep == SelectSeq([i \in 1..Len(inv) |-> i], LAMBDA i : mask[i])
    IN  [i \in 1..Len(keep) |-> inv[keep[i]]]

\* DropMasked dropping only the first of the masked rows.
DropFirstMasked(inv, mask) ==
    LET keep == SelectSeq([i \in 1..Len(inv) |-> i],
                          LAMBDA i : ~mask[i] \/ \E j \in 1..(i - 1) : mask[j])
    IN  [i \in 1..Len(keep) |-> inv[keep[i]]]

\* self.inventory.drop(self.inventory[exits_mask].index, inplace=True)
DropMasked(inv, mask) ==
    LET keep == SelectSeq([i \in 1..Len(inv) |-> i], LAMBDA i : ~mask[i])
    IN  [i \in 1..Len(keep) |-> inv[keep[i]]]

\* InventoryForEntries as it would be with filter_entries called after
\* _execute_exit: the rows the period's exits close are gone.
InventoryAfterExits(inv, xs) == DropMasked(inv, xs.exits_mask)

\* Line 63: the self.inventory that filter_entries is given.  The period's
\* exit signal xs (line 64) is executed at line 66 only, so none of its rows
\* has left the inventory.
InventoryForEntries(inv, xs) == inv

\* Lines 62-64: the iterator yields the next period (a data source has
\* data_iterator.ngroups of them at most), and the strategy is asked
\* for this period's entry and exit signals, both on the inventory as it is.
NextPeriod ==
    /\ pc = "loop"
    /\ period < data[1].periods
    /\ period' = period + 1
    /\ \E xs \in FilterExits(inventory, period + 1) :
          \E es \in FilterEntries(InventoryForEntries(inventory, xs), period + 1) :
              /\ entry_signals' = es
              /\ exit_signals' = xs
              /\ ledger_at_filter' = [entries |-> InventoryForEntries(inventory, xs),
                                      exits |-> inventory]
    /\ capital_at_filter' = current_capital
    /\ pc' = StepAfter("loop")
    /\ UNCHANGED <<strategy, data, inventory, trade_log, capital_column, current_capital,
                   stop_if_broke, runs, outcome, stats>>

\* _execute_exit (lines 82-88), called at line 66.
ExecuteExit ==
    /\ pc = "exit"
    /\ trade_log' = AppendRows(trade_log, exit_signals.exits)
    /\ inventory' = DropMasked(inventory, exit_signals.exits_mask)
    /\ current_capital' = current_capital - Sum(exit_signals.total_costs)
    /\ pc' = StepAfter("exit")
    /\ UNCHANGED <<strategy, data, capital_column, stop_if_broke, period, runs, entry_signals,
                   exit_signals, capital_at_filter, ledger_at_filter, outcome, stats>>

\* ProcessEntrySignals as the lines commented out at 94-95 have it: the
\* candidate of the lowest cost instead of the first.
ProcessCheapestSignal(signals) ==
    IF signals # <<>>
    THEN LET i == CHOOSE i \in 1..Len(signals) :
                      /\ \A j \in 1..Len(signals) : signals[i].cost <= signals[j].cost
                      /\ \A j \in 1..(i - 1) : signals[j].cost > signals[i].cost
         IN  [entry |-> <<signals[i]>>, total_price |-> TotalPrice(signals[i])]
    ELSE [entry |-> signals, total_price |-> 0]

\* ProcessEntrySignals with a total price other than 0 in the branch without
\* candidates.
ProcessEntrySignalsCharged(signals) ==
    IF signals # <<>>
    THEN [entry |-> <<signals[1]>>, total_price |-> TotalPrice(signals[1])]
    ELSE [entry |-> signals, total_price |-> 1]

\* ProcessEntrySignals returning the first candidate with the total price 0
\* of the branch without candidates.
ProcessEntrySignalsUnpriced(signals) ==
    IF signals # <<>>
    THEN [entry |-> <<signals[1]>>, total_price |-> 0]
    ELSE [entry |-> signals, total_price |-> 0]

\* _process_entry_signals (lines 90-99): the first candidate and its total
\* price, or the empty frame and 0.
ProcessEntrySignals(signals) ==
    IF signals # <<>>
    THEN [entry |-> <<signals[1]>>, total_price |-> TotalPrice(signals[1])]
    ELSE [entry |-> signals, total_price |-> 0]

\* CanEnter without the gate: every entry is executed.
CanEnterAlways(broke_stops, capital, total_price) == TRUE

\* CanEnter with the gate on a capital that is not negative, whatever the price.
CanEnterWhileSolvent(broke_stops, capital, total_price) ==
    (~broke_stops) \/ (capital >= 0)

\* CanEnter with the gate on the capital held before the period's exits.
CanEnterOnStartingCapital(broke_stops, capital, total_price) ==
    (~broke_stops) \/ (capital_at_filter >= total_price)

\* The condition of line 77.
CanEnter(broke_stops, capital, total_price) ==
    (~broke_stops) \/ (capital >= total_price)

\* _execute_entry (lines 73-80), called at line 67.
ExecuteEntry ==
    /\ pc = "entry"
    /\ LET p == ProcessEntrySignals(entry_signals)
       IN  IF CanEnter(stop_if_broke, current_capital, p.total_price)
           THEN /\ inventory' = AppendRows(inventory, p.entry)
                /\ trade_log' = AppendRows(trade_log, p.entry)
                /\ current_capital' = current_capital - p.total_price
           ELSE UNCHANGED <<inventory, trade_log, current_capital>>
    /\ pc' = StepAfter("entry")
    /\ UNCHANGED <<strategy, data, capital_column, stop_if_broke, period, runs, entry_signals,
                   exit_signals, capital_at_filter, ledger_at_filter, outcome, stats>>

\* Line 69: bar.update() ends the period.  The period's signals are dead from
\* here on (the next period assigns new ones, the return drops them): they
\* read as empty.
BarUpdate ==
    /\ pc = "update"
    /\ pc' = StepAfter("update")
    /\ entry_signals' = <<>>
    /\ exit_signals' = NoSignals
    /\ capital_at_filter' = 0
    /\ ledger_at_filter' = NoLedgers
    /\ UNCHANGED <<strategy, data, inventory, trade_log, capital_column, current_capital,
                   stop_if_broke, period, runs, outcome, stats>>

\* Line 62 with the iterator exhausted, and line 71: run() returns the trade log.
Return ==
    /\ pc = "loop"
    /\ pc' = "idle"
    /\ outcome' = "returned"
    /\ UNCHANGED <<strategy, data, inventory, trade_log, capital_column, current_capital,
                   stop_if_broke, period, runs, entry_signals, exit_signals, capital_at_filter, ledger_at_filter,
                   stats>>

\* ------------------------------------------------------------- summary
\* Line 112: row['leg_1']['order'][2] == 'O' (the third character of the tag).
IsEntryRow(row) == row.order[3] = "O"
IsExitRow(row) == ~IsEntryRow(row)

\* Lines 104-106: (-cost * qty).cumsum() + initial_capital, one value per row.
CapitalSeries(log, initial_capital) ==
    [i \in 1..Len(log) |-> Sum([j \in 1..i |-> -TotalPrice(log[j])]) + initial_capital]

\* The keys of df.groupby(('totals', 'date')) (line 108): the dates of the
\* log, each once, ascending.
RECURSIVE GroupKeys(_)
GroupKeys(dates) ==
    IF dates = {}
    THEN <<>>
    ELSE LET first == CHOOSE d \in dates : \A e \in dates : d <= e
         IN  <<first>> \o GroupKeys(dates \ {first})

\* Line 109: for each date, the capital value of the last row of that date.
DailyCapital(log, capital) ==
    LET keys == GroupKeys({log[i].date : i \in 1..Len(log)})
        tail(d) == CHOOSE i \in 1..Len(log) :
                      /\ log[i].date = d
                      /\ \A j \in (i + 1)..Len(log) : log[j].date # d
    IN  [k \in 1..Len(keys) |-> [date |-> keys[k], capital |-> capital[tail(keys[k])]]]

\* Lines 113-114.
EntriesOf(log) == SelectSeq(log, IsEntryRow)
ExitsOf(log) == SelectSeq(log, IsExitRow)

\* NetCost with the exit's quantity left out.
NetCostExitUnscaled(entries, exits, contract) ==
    LET entry == SelectSeq(entries, LAMBDA r : r.contract = contract)
        exit_ == SelectSeq(exits, LAMBDA r : r.contract = contract)
    IN  IF entry = <<>> \/ exit_ = <<>>
        THEN <<>>
        ELSE <<TotalPrice(entry[1]) + exit_[1].cost>>

\* Lines 118-125, for the contract of one row of entries: the first entry row
\* and the first exit row of that contract; an IndexError (no such row) skips.
NetCost(entries, exits, contract) ==
    LET entry == SelectSeq(entries, LAMBDA r : r.contract = contract)
        exit_ == SelectSeq(exits, LAMBDA r : r.contract = contract)
    IN  IF entry = <<>> \/ exit_ = <<>>
        THEN <<>>
        ELSE <<TotalPrice(entry[1]) + TotalPrice(exit_[1])>>

\* Lines 116-125: the loop over entries['leg_1']['contract'], from row i on.
RECURSIVE CostsFrom(_, _, _)
CostsFrom(entries, exits, i) ==
    IF i > Len(entries)
    THEN <<>>
    ELSE NetCost(entries, exits, entries[i].contract) \o CostsFrom(entries, exits, i + 1)

RoundTripCosts(log) == CostsFrom(EntriesOf(log), ExitsOf(log), 1)

\* Lines 133-134 with np.sum: how many costs are < 0, and how many >= 0.
CountWins(costs) == Cardinality({i \in 1..Len(costs) : costs[i] < 0})
CountLosses(costs) == Cardinality({i \in 1..Len(costs) : costs[i] >= 0})

\* Line 138.
LossNumber(total_trades, win_number) == total_trades - win_number

\* Line 140: np.max(costs), of a non-empty array.
MaxOf(costs) == CHOOSE m \in {costs[i] : i \in 1..Len(costs)} :
                    \A i \in 1..Len(costs) : costs[i] <= m

\* a / b of numpy numbers (lines 135, 139, 141): a division by zero raises
\* nothing, it gives nan for 0 / 0 and an infinity otherwise.
TrueDivide(a, b) ==
    [kind |-> IF b # 0 THEN "finite" ELSE IF a = 0 THEN "nan" ELSE "inf", num |-> a, den |-> b]

\* summary()'s locals at its return (raised = "none"), or at the statement
\* that raises: df['totals'] of a frame without columns (KeyError, line 106),
\* np.max of an empty array (ValueError, line 140).  A local not yet assigned
\* at the raise reads here as its statement would have computed it
\* (largest_loss: 0).  A trade log without rows that has kept the columns of
\* the frames appended to it raises at line 140 instead of line 106; the
\* model names the raise of every log without rows "KeyError".
SummaryStats(log, initial_capital) ==
    LET costs == RoundTripCosts(log)
        total_trades == Len(ExitsOf(log))
        win_number == CountWins(costs)
    IN  [raised |-> IF log = <<>> THEN "KeyError"
                    ELSE IF costs = <<>> THEN "ValueError" ELSE "none",
         daily_capital |-> DailyCapital(log, CapitalSeries(log, initial_capital)),
         costs |-> costs,
         profit_factor |-> TrueDivide(win_number, CountLosses(costs)),
         total_trades |-> total_trades,
         win_number |-> win_number,
         loss_number |-> LossNumber(total_trades, win_number),
         win_pct |-> TrueDivide(win_number, total_trades),
         largest_loss |-> IF costs = <<>> THEN 0 ELSE MaxOf(costs),
         avg_profit |-> TrueDivide(-Sum(costs), Len(costs))]

\* summary() (lines 101-153), on the trade log of the last run.
Summary ==
    /\ pc = "idle"
    /\ strategy # None
    /\ runs >= 1
    /\ stats' = <<SummaryStats(trade_log, strategy[1].initial_capital)>>
    /\ capital_column' = IF trade_log = <<>>
                         THEN capital_column
                         ELSE CapitalSeries(trade_log, strategy[1].initial_capital)
    /\ UNCHANGED <<strategy, data, inventory, trade_log, current_capital, stop_if_broke, pc,
                   period, runs, entry_signals, exit_signals, capital_at_filter, ledger_at_filter, outcome>>

\* ------------------------------------------------------------- specifications
Strategies == {[initial_capital |-> c, schema |-> "options"] : c \in InitialCapitals}
DataSources == {[schema |-> s, periods |-> MaxPeriods] : s \in Schemas}

Next ==
    \/ \E strat \in Strategies : SetStrategy(strat)
    \/ \E d \in DataSources : SetData(d)
    \/ \E b \in BOOLEAN : SetStopIfBroke(b)
    \/ Run
    \/ NextPeriod
    \/ ExecuteExit
    \/ ExecuteEntry
    \/ BarUpdate
    \/ Return
    \/ Summary

Spec == Init /\ [][Next]_vars

\* summary() on its own: the engine after a first run that left any trade log
\* of at most MaxLog rows, entries and exits in any order, dates not decreasing.
LogRows ==
    UNION {{Row(c, k, q, o, 1) : c \in Contracts, q \in LogQtys,
                                 o \in {EntryOrder(k), ExitOrder(k)}} : k \in Costs}

\* A log of the rows given: the first `early` rows carry date 1, the rest date 2.
DatedLog(rows, early) ==
    [i \in 1..Len(rows) |-> [rows[i] EXCEPT !.date = IF i <= early THEN 1 ELSE 2]]

InitSummary ==
    /\ strategy \in {<<strat>> : strat \in Strategies}
    /\ data = <<[schema |-> "options", periods |-> MaxPeriods]>>
    /\ inventory = <<>>
    /\ \E n \in 0..MaxLog : \E early \in 0..n : \E rows \in [1..n -> LogRows] :
          trade_log = DatedLog(rows, early)
    /\ capital_column = <<>>
    /\ current_capital = strategy[1].initial_capital - Sum([i \in 1..Len(trade_log) |-> TotalPrice(trade_log[i])])
    /\ stop_if_broke = TRUE
    /\ pc = "idle"
    /\ period = 0
    /\ runs = 1
    /\ entry_signals = <<>>
    /\ exit_signals = NoSignals
    /\ capital_at_filter = 0
    /\ ledger_at_filter = NoLedgers
    /\ outcome = "returned"
    /\ stats = <<>>

NextSummary == Summary

SpecSummary == InitSummary /\ [][NextSummary]_vars

\* One period on its own: the engine in its first run, MaxOpen periods gone,
\* of which the first n each opened a position (each entry passed the gate of
\* line 77 on the capital of its time) and none closed one; the data source
\* has one more period.
InitLedger ==
    /\ strategy \in {<<strat>> : strat \in Strategies}
    /\ data = <<[schema |-> "options", periods |-> MaxOpen + 1]>>
    /\ stop_if_broke \in BOOLEAN
    /\ \E n \in 0..MaxOpen : \E rows \in [1..n -> EntryRows(0)] :
          LET opened == [i \in 1..n |-> [rows[i] EXCEPT !.date = i]]
              capital_before(i) ==
                  strategy[1].initial_capital - Sum([j \in 1..(i - 1) |-> TotalPrice(opened[j])])
          IN  /\ \A i \in 1..n : CanEnter(stop_if_broke, capital_before(i), TotalPrice(opened[i]))
              /\ inventory = opened
              /\ trade_log = opened
              /\ current_capital = capital_before(n + 1)
    /\ capital_column = <<>>
    /\ pc = "loop"
    /\ period = MaxOpen
    /\ runs = 1
    /\ entry_signals = <<>>
    /\ exit_signals = NoSignals
    /\ capital_at_filter = 0
    /\ ledger_at_filter = NoLedgers
    /\ outcome = "running"
    /\ stats = <<>>

NextLedger ==
    \/ NextPeriod
    \/ ExecuteExit
    \/ ExecuteEntry
    \/ BarUpdate
    \/ Return

SpecLedger == InitLedger /\ [][NextLedger]_vars

\* ------------------------------------------------------------- claims
\* cost * quantity of a row, and its sum over a frame, as the claims state them.
RowDebit(row) == row.cost * row.qty
RECURSIVE Debits(_)
Debits(frame) == IF frame = <<>> THEN 0 ELSE RowDebit(Head(frame)) + Debits(Tail(frame))

\* The row of the trade log that opened a position in period d, if any.
EntriesDated(d) == {i \in 1..Len(trade_log) : trade_log[i].order[3] = "O" /\ trade_log[i].date = d}

\* C1: capital conservation.  At every period boundary of a run, the last one
\* (the end of the run) included, the capital is the strategy's initial capital
\* minus the sum of cost * quantity over the rows of the trade log.
C1_CapitalConservation ==
    pc = "loop" => current_capital = strategy[1].initial_capital - Debits(trade_log)

\* C2: capital gating.  With stop_if_broke set, an entry whose total price is
\* above the capital held when the entry is evaluated is appended neither to
\* the trade log nor to the inventory.
C2_CapitalGating ==
    [][(/\ pc = "entry"
        /\ stop_if_broke
        /\ entry_signals # <<>>
        /\ RowDebit(entry_signals[1]) > current_capital)
       => (trade_log' = trade_log /\ inventory' = inventory)]_vars

\* A period has ended in which the first candidate cost more than the capital
\* held and was not entered.
C2_Witness ==
    /\ pc = "update"
    /\ stop_if_broke
    /\ entry_signals # <<>>
    /\ RowDebit(entry_signals[1]) > current_capital
    /\ EntriesDated(period) = {}
    /\ inventory # <<>>

\* C3: single entry per period.  The entry step appends at most one row, the
\* same row to the inventory and to the trade log, and that row is the first
\* of the candidates; no other step grows the inventory, and the trade log
\* never holds two entries of one period.
C3_SingleEntryPerPeriod ==
    /\ [][/\ Len(inventory') <= Len(inventory) + 1
          /\ (Len(inventory') > Len(inventory)) =>
                (/\ pc = "entry"
                 /\ entry_signals # <<>>
                 /\ inventory' = Append(inventory, entry_signals[1])
                 /\ trade_log' = Append(trade_log, entry_signals[1]))
          /\ (pc = "entry" /\ trade_log' # trade_log) =>
                (/\ entry_signals # <<>>
                 /\ trade_log' = Append(trade_log, entry_signals[1])
                 /\ inventory' = Append(inventory, entry_signals[1]))]_vars
    /\ [](\A d \in 1..(MaxPeriods + 1) : Cardinality(EntriesDated(d)) <= 1)

\* Two candidates were offered, the first one the dearer, and the first one is
\* the period's entry.
C3_Witness ==
    /\ pc = "update"
    /\ Len(entry_signals) >= 2
    /\ RowDebit(entry_signals[1]) > RowDebit(entry_signals[2])
    /\ entry_signals[1].contract # entry_signals[2].contract
    /\ trade_log # <<>>
    /\ trade_log[Len(trade_log)] = entry_signals[1]
    /\ inventory[Len(inventory)] = entry_signals[1]

\* How many rows of a frame satisfy a test.
CountRows(frame, Test(_)) == Len(SelectSeq(frame, Test))

\* C4: ledger consistency.  The inventory holds only rows the trade log holds
\* as entries, each no more often than the log does, and for every contract as
\* many rows as the log holds entries of that contract less exits of it; and
\* the mask of an exit signal is a mask over the rows of the inventory.
C4_LedgerConsistency ==
    /\ \A i \in 1..Len(inventory) :
          /\ inventory[i].order[3] = "O"
          /\ CountRows(inventory, LAMBDA r : r = inventory[i])
               <= CountRows(trade_log, LAMBDA r : r = inventory[i])
    /\ \A c \in Contracts :
          CountRows(inventory, LAMBDA r : r.contract = c)
            = CountRows(trade_log, LAMBDA r : r.contract = c /\ r.order[3] = "O")
              - CountRows(trade_log, LAMBDA r : r.contract = c /\ r.order[3] # "O")
    /\ (pc = "exit") => (Len(exit_signals.exits_mask) = Len(inventory))

\* A position was opened and closed, and a position of another contract opened
\* after it is still open.
C4_Witness ==
    /\ pc = "loop"
    /\ Len(trade_log) = 3
    /\ trade_log[1].order[3] = "O"
    /\ trade_log[2].order[3] = "C"
    /\ trade_log[2].contract = trade_log[1].contract
    /\ trade_log[3].contract # trade_log[1].contract
    /\ inventory = <<trade_log[3]>>

IsPrefix(s, t) == Len(s) <= Len(t) /\ \A i \in 1..Len(s) : s[i] = t[i]

\* C5: append-only log.  Every step of a run after its start leaves the trade
\* log a prefix of what it becomes.
C5_AppendOnly ==
    [][(pc \in {"loop", "exit", "entry", "update"}) => IsPrefix(trade_log, trade_log')]_vars

\* The log of a run has grown in two periods, by exits and by entries.
C5_Witness ==
    /\ pc = "loop"
    /\ Len(trade_log) >= 3
    /\ \E i \in 1..Len(trade_log) : trade_log[i].order[3] = "C"
    /\ trade_log[1].date # trade_log[Len(trade_log)].date

\* C6: exits before entries.  When the period's entry is evaluated, the
\* period's exits are the last rows of the trade log, the masked rows have left
\* the inventory and the capital is the capital of the period's start less the
\* exits' total costs; a gated entry is executed exactly when that capital
\* covers its total price; and in the trade log no exit of a period follows an
\* entry of that period.
C6_ExitsBeforeEntries ==
    LET xs == exit_signals.exits
        after_exits == capital_at_filter - Debits(xs)
        n == Len(trade_log)
    IN  /\ (pc = "entry") =>
              /\ n >= Len(xs)
              /\ \A i \in 1..Len(xs) : trade_log[n - Len(xs) + i] = xs[i]
              /\ Len(inventory) + Len(xs) = Len(exit_signals.exits_mask)
              /\ current_capital = after_exits
        /\ (pc = "update" /\ stop_if_broke /\ entry_signals # <<>>) =>
              (EntriesDated(period) # {} <=> after_exits >= RowDebit(entry_signals[1]))
        /\ \A i \in 1..n : \A j \in (i + 1)..n :
              (trade_log[i].date = trade_log[j].date /\ trade_log[i].order[3] = "O")
                 => trade_log[j].order[3] = "O"

\* A period closed a position at a credit, and only that credit let the
\* period's entry pass the gate.
C6_Witness ==
    /\ pc = "update"
    /\ stop_if_broke
    /\ exit_signals.exits # <<>>
    /\ entry_signals # <<>>
    /\ EntriesDated(period) # {}
    /\ capital_at_filter < RowDebit(entry_signals[1])
    /\ trade_log[Len(trade_log) - 1] = exit_signals.exits[Len(exit_signals.exits)]

\* C7: every run starts from an empty inventory, an empty trade log and the
\* strategy's initial capital.
C7_RunStartsFresh ==
    (pc = "loop" /\ period = 0) =>
        /\ inventory = <<>>
        /\ trade_log = <<>>
        /\ current_capital = strategy[1].initial_capital

\* C8: configuration errors.  A call of run() with no strategy, no data source
\* or two different schemas ends in the error, before any period, and leaves
\* the inventory, the trade log and the capital as they were.
C8_ConfigurationErrors ==
    [][(/\ pc = "idle"
        /\ outcome' # outcome
        /\ \/ strategy = None
           \/ data = None
           \/ data[1].schema # strategy[1].schema)
       => (/\ outcome' = "AssertionError"
           /\ pc' = "idle"
           /\ UNCHANGED <<inventory, trade_log, capital_column, current_capital, period, runs,
                          entry_signals, exit_signals>>)]_vars

\* A run on a data source of another schema has failed after an earlier run
\* left a trade log and an open position.
C8_Witness ==
    /\ outcome = "AssertionError"
    /\ strategy # None
    /\ data # None
    /\ data[1].schema # strategy[1].schema
    /\ trade_log # <<>>
    /\ inventory # <<>>
    /\ current_capital # strategy[1].initial_capital

\* C9: round-trip classification.  In a summary that is reported, the number
\* of wins is the number of net costs below 0, the number of losses is the
\* number of net costs of 0 or more, and the two add up to the number of
\* matched round trips.
C9_RoundTripClassification ==
    (stats # <<>> /\ stats[1].raised = "none") =>
        LET costs == stats[1].costs
        IN  /\ stats[1].win_number = Cardinality({i \in 1..Len(costs) : costs[i] < 0})
            /\ stats[1].loss_number = Cardinality({i \in 1..Len(costs) : costs[i] >= 0})
            /\ stats[1].win_number + stats[1].loss_number = Len(costs)

\* The contracts a log holds entries of, exits of, and both.
EntryRowsOf(log, c) == {i \in 1..Len(log) : log[i].order[3] = "O" /\ log[i].contract = c}
ExitRowsOf(log, c) == {i \in 1..Len(log) : log[i].order[3] # "O" /\ log[i].contract = c}
Matched(log) == {c \in Contracts : EntryRowsOf(log, c) # {} /\ ExitRowsOf(log, c) # {}}
OncePerContract(log) ==
    \A c \in Contracts : Cardinality(EntryRowsOf(log, c)) <= 1 /\ Cardinality(ExitRowsOf(log, c)) <= 1

\* The net costs of the matched contracts of a log, in the order of their entries.
RECURSIVE NetCostsFrom(_, _)
NetCostsFrom(log, i) ==
    IF i > Len(log)
    THEN <<>>
    ELSE (IF log[i].order[3] = "O" /\ log[i].contract \in Matched(log)
          THEN LET x == CHOOSE j \in ExitRowsOf(log, log[i].contract) : TRUE
               IN  <<log[i].cost * log[i].qty + log[x].cost * log[x].qty>>
          ELSE <<>>) \o NetCostsFrom(log, i + 1)

C11_DegenerateStatistics ==
    (/\ stats # <<>>
     /\ \/ stats[1].costs = <<>>
        \/ stats[1].total_trades = 0
        \/ \A i \in 1..Len(stats[1].costs) : stats[1].costs[i] < 0)
    => /\ stats[1].raised = "none"
       /\ (stats[1].total_trades = 0) => stats[1].win_pct.kind # "finite"
       /\ (\A i \in 1..Len(stats[1].costs) : stats[1].costs[i] < 0)
             => stats[1].profit_factor.kind # "finite"
       /\ (stats[1].costs = <<>>) => stats[1].avg_profit.kind # "finite"

\* C12: exit execution.  The exit step appends the exit records to the trade
\* log in their order, removes from the inventory the rows the mask selects
\* and no others (the rest keep their order), and takes the sum of the total
\* costs off the capital; two exits that close two open positions are both
\* logged and both positions leave the inventory in that step.
C12_ExitExecution ==
    [][(pc = "exit") =>
          LET mask == exit_signals.exits_mask
              kept == {i \in 1..Len(inventory) : ~mask[i]}
          IN  /\ Len(trade_log') = Len(trade_log) + Len(exit_signals.exits)
              /\ \A i \in 1..Len(trade_log) : trade_log'[i] = trade_log[i]
              /\ \A i \in 1..Len(exit_signals.exits) :
                    trade_log'[Len(trade_log) + i] = exit_signals.exits[i]
              /\ Len(inventory') = Cardinality(kept)
              /\ \A i \in kept : inventory'[Cardinality({j \in kept : j <= i})] = inventory[i]
              /\ current_capital' = current_capital - Sum(exit_signals.total_costs)
              /\ (Len(exit_signals.exits) = 2 /\ Len(inventory) = 2) =>
                    (/\ inventory' = <<>>
                     /\ SubSeq(trade_log', Len(trade_log) + 1, Len(trade_log) + 2)
                          = exit_signals.exits)]_vars

\* Two positions of two contracts, opened in two periods, have been closed in
\* one period, one at a debit and one at a credit.
C12_Witness ==
    /\ pc = "entry"
    /\ Len(exit_signals.exits) = 2
    /\ exit_signals.exits[1].contract # exit_signals.exits[2].contract
    /\ exit_signals.exits[1].cost # exit_signals.exits[2].cost
    /\ Len(trade_log) = 4
    /\ trade_log[1].date # trade_log[2].date
    /\ trade_log[3] = exit_signals.exits[1]
    /\ trade_log[4] = exit_signals.exits[2]
    /\ inventory = <<>>
    /\ current_capital = capital_at_filter - Sum(exit_signals.total_costs)

\* C13: entry execution is all-or-nothing.  The entry step either appends the
\* first candidate to the inventory and to the trade log and takes its
\* cost * quantity off the capital, or leaves all three as they are; and when
\* the period ends, the inventory ends with a row of the period exactly when
\* the trade log does, and exactly then the capital is the capital left by the
\* period's exits less that row's cost * quantity.
C13_EntryAllOrNothing ==
    /\ [][(pc = "entry") =>
             \/ /\ entry_signals # <<>>
                /\ inventory' = Append(inventory, entry_signals[1])
                /\ trade_log' = Append(trade_log, entry_signals[1])
                /\ current_capital' = current_capital - RowDebit(entry_signals[1])
             \/ /\ inventory' = inventory
                /\ trade_log' = trade_log
                /\ current_capital' = current_capital]_vars
    /\ [](pc = "update" =>
             LET after_exits == capital_at_filter - Sum(exit_signals.total_costs)
                 in_ledger == inventory # <<>> /\ inventory[Len(inventory)].date = period
                 in_log == EntriesDated(period) # {}
             IN  /\ in_ledger <=> in_log
                 /\ in_log => /\ inventory[Len(inventory)] = trade_log[Len(trade_log)]
                              /\ current_capital = after_exits - RowDebit(trade_log[Len(trade_log)])
                 /\ (~in_log) => current_capital = after_exits)

\* A run has executed the entry of its first period and skipped, by the gate,
\* the entry of its second: nothing was closed, and the inventory, the trade
\* log and the capital are those of the first period.
C13_Witness ==
    /\ pc = "update"
    /\ period = 2
    /\ stop_if_broke
    /\ exit_signals.exits = <<>>
    /\ entry_signals # <<>>
    /\ Len(trade_log) = 1
    /\ inventory = trade_log
    /\ trade_log[1].date = 1
    /\ current_capital = strategy[1].initial_capital - RowDebit(trade_log[1])
    /\ current_capital < RowDebit(entry_signals[1])

\* C14: no candidates, no entry.  In a period for which the strategy yields no
\* entry candidate the entry step leaves the inventory, the trade log and the
\* capital as they are, with stop_if_broke on or off and the capital above,
\* at or below 0.
C14_NoCandidatesNoOp ==
    [][(pc = "entry" /\ entry_signals = <<>>) =>
          (/\ inventory' = inventory
           /\ trade_log' = trade_log
           /\ current_capital' = current_capital)]_vars

\* A period without candidates has ended on a capital below 0, with
\* stop_if_broke on, after its exit step closed the one open position.
C14_Witness ==
    /\ pc = "update"
    /\ entry_signals = <<>>
    /\ stop_if_broke
    /\ current_capital < 0
    /\ exit_signals.exits # <<>>
    /\ inventory = <<>>
    /\ trade_log[Len(trade_log)] = exit_signals.exits[1]
    /\ current_capital = capital_at_filter - Sum(exit_signals.total_costs)

\* C15: the summary leaves the trade log alone.  A call of summary() changes
\* neither the rows of the trade log nor the columns they have, and leaves the
\* inventory and the capital as they are.
C15_SummaryKeepsTradeLog ==
    [][(stats' # stats /\ stats' # <<>>) =>
          (/\ trade_log' = trade_log
           /\ capital_column' = capital_column
           /\ inventory' = inventory
           /\ current_capital' = current_capital)]_vars

\* C16: capital series.  In the summary of a trade log the capital value of
\* row i is the initial capital less the sum of cost * quantity over rows 1..i,
\* the daily series has one value for each date of the log, the capital value
\* of the last row of that date; and when a run returns its trade log, the
\* last value of that log's capital series is the capital the engine holds.
C16_CapitalSeries ==
    /\ [](stats # <<>> /\ trade_log # <<>> =>
            LET daily == stats[1].daily_capital
                dates == {trade_log[i].date : i \in 1..Len(trade_log)}
            IN  /\ Len(capital_column) = Len(trade_log)
                /\ \A i \in 1..Len(trade_log) :
                      capital_column[i]
                        = strategy[1].initial_capital - Debits(SubSeq(trade_log, 1, i))
                /\ Len(daily) = Cardinality(dates)
                /\ {daily[k].date : k \in 1..Len(daily)} = dates
                /\ \A k \in 1..Len(daily) : \E i \in 1..Len(trade_log) :
                      /\ trade_log[i].date = daily[k].date
                      /\ \A j \in (i + 1)..Len(trade_log) : trade_log[j].date # daily[k].date
                      /\ daily[k].capital = capital_column[i])
    /\ [][(pc = "loop" /\ pc' = "idle" /\ trade_log # <<>>) =>
             LET series == CapitalSeries(trade_log', strategy[1].initial_capital)
             IN  series[Len(series)] = current_capital']_vars

\* C17: one ledger for both queries.  The entry filter and the exit filter of
\* a period are given the same inventory, the one the previous period left;
\* so the positions the period's exits close are still in the inventory the
\* entry candidates were chosen on, although they are gone when the entry is
\* executed.
C17_SameLedgerForBothFilters ==
    /\ [][(pc = "loop" /\ pc' = "exit") =>
             (/\ ledger_at_filter'.entries = inventory
              /\ ledger_at_filter'.exits = inventory
              /\ inventory' = inventory)]_vars
    /\ [](pc \in {"exit", "entry", "update"} =>
             LET mask == exit_signals.exits_mask
                 closed == {i \in 1..Len(mask) : mask[i]}
             IN  /\ ledger_at_filter.entries = ledger_at_filter.exits
                 /\ Len(ledger_at_filter.entries) = Len(mask)
                 /\ (pc = "exit") => inventory = ledger_at_filter.entries
                 /\ (pc # "exit") =>
                       Len(inventory) >= Len(ledger_at_filter.entries) - Cardinality(closed))

\* A period has closed the one open position and opened one of the same
\* contract: the closed position was in the inventory given to the entry
\* filter, and is not in the inventory the entry was appended to.
C17_Witness ==
    /\ pc = "update"
    /\ Len(ledger_at_filter.entries) = 1
    /\ exit_signals.exits_mask = <<TRUE>>
    /\ exit_signals.exits[1].contract = ledger_at_filter.entries[1].contract
    /\ entry_signals # <<>>
    /\ entry_signals[1].contract = ledger_at_filter.entries[1].contract
    /\ inventory = <<entry_signals[1]>>
    /\ inventory # ledger_at_filter.entries

\* C18: the gate keeps the capital at 0 or more.  With stop_if_broke on, the
\* capital is 0 or more right after every entry that is executed; a step of a
\* run that takes the capital from 0 or more to below 0 is an exit step; and
\* while the capital is below 0 no entry whose total price is above it is
\* executed.
C18_GatedCapitalNotNegative ==
    [][stop_if_broke =>
          /\ (pc = "entry" /\ trade_log' # trade_log) => current_capital' >= 0
          /\ (pc # "idle" /\ current_capital >= 0 /\ current_capital' < 0) => pc = "exit"
          /\ (/\ pc = "entry"
              /\ current_capital < 0
              /\ entry_signals # <<>>
              /\ RowDebit(entry_signals[1]) > current_capital)
             => (trade_log' = trade_log /\ inventory' = inventory)]_vars

\* With stop_if_broke on, a period's exit took the capital below 0, and the
\* period's entry, a credit no smaller than the shortfall, was executed and
\* left the capital at 0 or more.
C18_Witness ==
    /\ pc = "update"
    /\ stop_if_broke
    /\ capital_at_filter >= 0
    /\ capital_at_filter - Sum(exit_signals.total_costs) < 0
    /\ EntriesDated(period) # {}
    /\ RowDebit(trade_log[Len(trade_log)]) < 0
    /\ current_capital >= 0

\* C19: the counts of a summary are consistent.  For every trade log, one
\* with two entries of a contract or with exits that match no entry included,
\* the number of wins is at most the total of trades, so the number of losses
\* is 0 or more and Win % is at most 1, and there are no more net costs than
\* exit rows.
C19_WinsWithinTotalTrades ==
    (stats # <<>>) =>
        /\ stats[1].win_number <= stats[1].total_trades
        /\ stats[1].loss_number >= 0
        /\ (stats[1].win_pct.kind = "finite") => stats[1].win_pct.num <= stats[1].win_pct.den
        /\ Len(stats[1].costs) <= stats[1].total_trades
====
